---- MODULE Spec2Model ----
(***************************************************************************)
(* Month-by-month amortization simulator of the home-loan comparator       *)
(* (simulateLoan and its helpers emi, applyStepUp, computePrepay).         *)
(*                                                                         *)
(* Number representation.  The program computes in IEEE doubles.  The      *)
(* model computes in integers and draws its inputs from configurations on  *)
(* which every operation of the program is exact in doubles: the monthly   *)
(* rate annualRate/1200 is a whole number, the yearly step-up factor       *)
(* 1 + value/100 is a whole number, and the division inside emi leaves no  *)
(* remainder (predicate Exact).  On these inputs the integer result and    *)
(* the double result are the same number.                                  *)
(*                                                                         *)
(* rows keeps the last two records pushed (the claims relate a record to   *)
(* its predecessor only); m is rows.length of the program, as in the code  *)
(* where one record is pushed per increment of m.                          *)
(***************************************************************************)
EXTENDS Integers, Sequences, FiniteSets

VARIABLES input, bal, savings, schedEmi, m, totalInterest, rows, loc, paid,
          pc, result

vars == <<input, bal, savings, schedEmi, m, totalInterest, rows, loc, paid,
          pc, result>>

----------------------------------------------------------------------------
(* Bounds of the input space *)

\* largest starting savings balance of the offset account
MaxStartSavings == 20
\* one-time prepayment amount
MaxOneTimeAmount == 5
\* recurring annual prepayment amount
MaxRecurringAmount == 2
\* amount moved from savings to principal at each periodic transfer
MaxPartAmount == 5
\* monthly add-on of the monthly_add step-up
MaxMonthlyAdd == 100
\* largest tenure for which the annuity factor (1+r)^N is evaluated with r > 0
MaxPowN == 14

\* hard cap of the simulation loop
MaxMonths == 1200

----------------------------------------------------------------------------
(* Helpers *)

Max(a, b) == IF a >= b THEN a ELSE b

Min(a, b) == IF a <= b THEN a ELSE b

RECURSIVE Pow(_, _)
Pow(b, e) == IF e <= 0 THEN 1 ELSE b * Pow(b, e - 1)

\* emi(P, r, N): fixed annuity payment; r is the monthly rate
emi(P, r, N) ==
    IF P <= 0 \/ N <= 0 THEN 0
    ELSE IF r = 0 THEN P \div N
    ELSE LET f == Pow(1 + r, N) IN (P * r * f) \div (f - 1)

totalTenureMonths(c) == c.years * 12 + c.monthsExtra

rMonthlyBase(c) == c.annualRate \div 1200

baseEmi(c) == emi(c.principal, rMonthlyBase(c), totalTenureMonths(c))

\* mutant: monthly_add adds the value to the initial payment, not to the
\* persisted one
applyStepUp_FlatAdd(c, cur, month) ==
    IF c.stepUp.mode = "monthly_add" /\ c.stepUp.value > 0
    THEN baseEmi(c) + c.stepUp.value
    ELSE IF c.stepUp.mode = "yearly_percent" /\ c.stepUp.value > 0
    THEN IF month > 0 /\ month % 12 = 0
         THEN (cur * (100 + c.stepUp.value)) \div 100
         ELSE cur
    ELSE cur

\* mutant: the yearly step-up also fires in month 0
applyStepUp_YearlyFromZero(c, cur, month) ==
    IF c.stepUp.mode = "monthly_add" /\ c.stepUp.value > 0
    THEN cur + c.stepUp.value
    ELSE IF c.stepUp.mode = "yearly_percent" /\ c.stepUp.value > 0
    THEN IF month % 12 = 0
         THEN (cur * (100 + c.stepUp.value)) \div 100
         ELSE cur
    ELSE cur

\* applyStepUp(month): the value the closure returns, given the persisted
\* scheduled payment cur.  In yearly_percent mode the closure first stores the
\* multiplied value and returns it; in monthly_add mode it returns cur + value.
applyStepUp(c, cur, month) ==
    IF c.stepUp.mode = "monthly_add" /\ c.stepUp.value > 0
    THEN cur + c.stepUp.value
    ELSE IF c.stepUp.mode = "yearly_percent" /\ c.stepUp.value > 0
    THEN IF month > 0 /\ month % 12 = 0
         THEN (cur * (100 + c.stepUp.value)) \div 100
         ELSE cur
    ELSE cur

\* mutant: the one-time amount is added from the configured month on
computePrepay_FromMonthOn(c, month) ==
    (IF c.prepay.oneTimeAmount > 0 /\ month >= c.prepay.oneTimeMonth
     THEN c.prepay.oneTimeAmount ELSE 0)
    + (IF c.prepay.recurringAnnualAmount > 0 /\ month > 0 /\ month % 12 = 0
       THEN c.prepay.recurringAnnualAmount ELSE 0)

\* computePrepay(month)
computePrepay(c, month) ==
    (IF c.prepay.oneTimeAmount > 0 /\ month = c.prepay.oneTimeMonth
     THEN c.prepay.oneTimeAmount ELSE 0)
    + (IF c.prepay.recurringAnnualAmount > 0 /\ month > 0 /\ month % 12 = 0
       THEN c.prepay.recurringAnnualAmount ELSE 0)

fromSavingsIntervalMonths(c) == Max(0, c.od.partFromSavingsEveryYYears * 12)

\* mutant: the increment is applied without the floor of 0
IncrementSavings_NoClamp(c, s) ==
    IF c.od.enabled /\ c.od.monthlyIncrement # 0
    THEN s + c.od.monthlyIncrement
    ELSE s

\* savings after the monthly increment (lines 142-144)
IncrementSavings(c, s) ==
    IF c.od.enabled /\ c.od.monthlyIncrement # 0
    THEN Max(0, s + c.od.monthlyIncrement)
    ELSE s

\* mutant: savings are added to the balance instead of subtracted
EffectivePrincipal_AddsSavings(c, b, s) ==
    Max(0, b + (IF c.od.enabled THEN s ELSE 0))

\* effectivePrincipal (line 146)
EffectivePrincipal(c, b, s) == Max(0, b - (IF c.od.enabled THEN s ELSE 0))

\* interest (line 147)
Interest(c, eff) == eff * rMonthlyBase(c)

\* does the periodic transfer fire in this month (lines 152-157)
TransferMonth(c, month) ==
    /\ c.od.enabled
    /\ fromSavingsIntervalMonths(c) > 0
    /\ month > 0
    /\ month % fromSavingsIntervalMonths(c) = 0

\* transferable (lines 158-159): the amount moved, 0 when nothing moves
Transferable(c, s, month) ==
    IF TransferMonth(c, month) /\ Min(c.od.partAmountEachTime, s) > 0
    THEN Min(c.od.partAmountEachTime, s)
    ELSE 0

\* mutant: the cap is off by one
LoopGuard_CapOffByOne(b, month) == b > 0 /\ month <= MaxMonths

\* the loop condition (line 139)
LoopGuard(b, month) == b > 0 /\ month < MaxMonths

\* mutant: max in place of min
DueThisMonth_Max(sched, b, interest) == Max(sched, b + interest)

\* mutant: the due amount is not capped at the remaining balance plus interest
DueThisMonth_NoCap(sched, b, interest) == sched

\* dueThisMonth (line 166)
DueThisMonth(sched, b, interest) == Min(sched, b + interest)

\* principalPaid (line 167)
PrincipalPaid(due, interest) == Max(0, due - interest)

\* capPrepay (line 168)
CapPrepay(extra, b, principalPaid) == Min(extra, Max(0, b - principalPaid))

\* mutant: the scheduled principal portion is not deducted
ClosingPrincipal_IgnoresScheduled(b, principalPaid, capPrepay) ==
    Max(0, b - capPrepay)

\* closingPrincipal (line 169)
ClosingPrincipal(b, principalPaid, capPrepay) ==
    Max(0, b - principalPaid - capPrepay)

----------------------------------------------------------------------------
(* Input space *)

Principals == {-1, 0, 3, 13, 1200, 1201}
YearsSet == {0, 1, 100}
MonthsExtraSet == {0, 1, 2}
AnnualRates == {0, 1200}

StepUps ==
    { [mode |-> "none", value |-> 0],
      [mode |-> "monthly_add", value |-> MaxMonthlyAdd],
      [mode |-> "yearly_percent", value |-> 100] }

Prepays ==
    [ oneTimeAmount : {0, MaxOneTimeAmount},
      oneTimeMonth : {0, 12},
      recurringAnnualAmount : {0, MaxRecurringAmount} ]

ODs ==
    [ enabled : BOOLEAN,
      startSavings : {0, MaxStartSavings},
      monthlyIncrement : {-1, 0, 1},
      partFromSavingsEveryYYears : {0, 1},
      partAmountEachTime : {MaxPartAmount} ]

\* configurations on which the program's double arithmetic is exact
Exact(c) ==
    /\ c.annualRate % 1200 = 0
    /\ (c.stepUp.mode = "yearly_percent" => c.stepUp.value % 100 = 0)
    /\ LET P == c.principal
           N == totalTenureMonths(c)
           r == rMonthlyBase(c)
       IN  \/ P <= 0
           \/ N <= 0
           \/ r = 0 /\ P % N = 0
           \/ r > 0 /\ N <= MaxPowN
                    /\ (P * r * Pow(1 + r, N)) % (Pow(1 + r, N) - 1) = 0

\* one representative per behaviour: a disabled offset ignores its fields, and
\* a zero one-time amount ignores its month
Canonical(c) ==
    /\ (~c.od.enabled =>
           /\ c.od.startSavings = 0
           /\ c.od.monthlyIncrement = 0
           /\ c.od.partFromSavingsEveryYYears = 0)
    /\ (c.prepay.oneTimeAmount = 0 => c.prepay.oneTimeMonth = 0)

Configs ==
    { c \in [ principal : Principals,
              years : YearsSet,
              monthsExtra : MonthsExtraSet,
              annualRate : AnnualRates,
              stepUp : StepUps,
              prepay : Prepays,
              od : ODs ] : Exact(c) /\ Canonical(c) }

----------------------------------------------------------------------------
(* State machine *)

NoLocals == [extraPrepay |-> 0, transferable |-> 0, savingsIn |-> 0]

NoResult == [totalInterest |-> 0, totalPaid |-> 0, months |-> 0,
             yearsPart |-> 0, remMonths |-> 0]

\* lines 97-109: state on entry to the loop
Init ==
    /\ input \in Configs
    /\ bal = input.principal
    /\ savings = (IF input.od.enabled THEN input.od.startSavings ELSE 0)
    /\ schedEmi = baseEmi(input)
    /\ m = 0
    /\ totalInterest = 0
    /\ rows = <<>>
    /\ loc = NoLocals
    /\ paid = 0
    /\ pc = "loop"
    /\ result = NoResult

\* mutant: the recorded closingPrincipal leaves out the prepayment
MonthRow_ClosingIgnoresPrepay(month, b, sav, eff, r, int, due, pp, cap, cl) ==
    [ monthIndex |-> month,
      year |-> (month \div 12) + 1,
      openingPrincipal |-> b,
      savingsBalance |-> sav,
      effectivePrincipal |-> eff,
      rateMonthly |-> r,
      interest |-> int,
      scheduledEmi |-> due,
      principalPaid |-> pp,
      prepayment |-> cap,
      closingPrincipal |-> Max(0, b - pp),
      closingSavings |-> sav ]

\* the record pushed at lines 171-184
MonthRow(month, b, sav, eff, r, int, due, pp, cap, cl) ==
    [ monthIndex |-> month,
      year |-> (month \div 12) + 1,
      openingPrincipal |-> b,
      savingsBalance |-> sav,
      effectivePrincipal |-> eff,
      rateMonthly |-> r,
      interest |-> int,
      scheduledEmi |-> due,
      principalPaid |-> pp,
      prepayment |-> cap,
      closingPrincipal |-> cl,
      closingSavings |-> sav ]

\* rows.push on the retained window
Push(rs, row) == IF Len(rs) = 0 THEN <<row>> ELSE <<rs[Len(rs)], row>>

\* one iteration of the while loop (lines 139-189)
Month ==
    /\ pc = "loop"
    /\ LoopGuard(bal, m)
    /\ LET sched == applyStepUp(input, schedEmi, m)
           sav1 == IncrementSavings(input, savings)
           eff == EffectivePrincipal(input, bal, sav1)
           interest == Interest(input, eff)
           transferable == Transferable(input, sav1, m)
           extraPrepay == computePrepay(input, m) + transferable
           sav2 == sav1 - transferable
           due == DueThisMonth(sched, bal, interest)
           principalPaid == PrincipalPaid(due, interest)
           capPrepay == CapPrepay(extraPrepay, bal, principalPaid)
           closing == ClosingPrincipal(bal, principalPaid, capPrepay)
           row == MonthRow(m, bal, sav2, eff, rMonthlyBase(input), interest,
                           due, principalPaid, capPrepay, closing)
       IN  /\ schedEmi' = sched
           /\ savings' = sav2
           /\ rows' = Push(rows, row)
           /\ loc' = [extraPrepay |-> extraPrepay,
                      transferable |-> transferable,
                      savingsIn |-> sav1]
           /\ totalInterest' = totalInterest + interest
           /\ paid' = paid + due + capPrepay
           /\ bal' = closing
           /\ m' = m + 1
    /\ UNCHANGED <<input, pc, result>>

\* after the loop (lines 191-201)
Finish ==
    /\ pc = "loop"
    /\ ~LoopGuard(bal, m)
    /\ pc' = "done"
    /\ result' = [totalInterest |-> totalInterest,
                  totalPaid |-> paid,
                  months |-> m,
                  yearsPart |-> m \div 12,
                  remMonths |-> m % 12]
    /\ UNCHANGED <<input, bal, savings, schedEmi, m, totalInterest, rows,
                   loc, paid>>

Next == Month \/ Finish

Spec == Init /\ [][Next]_vars

----------------------------------------------------------------------------
(* Shorthands used by the properties *)

Last == rows[Len(rows)]

HasRow == Len(rows) > 0

HasPrev == Len(rows) > 1

Prev == rows[1]

----------------------------------------------------------------------------
(* Predicates on configurations *)

Degenerate(c) == c.principal <= 0 \/ totalTenureMonths(c) <= 0

\* the scheduled payment resolved for month 0
FirstPayment(c) == applyStepUp(c, baseEmi(c), 0)

\* the interest charged in month 0
FirstInterest(c) ==
    Interest(c, EffectivePrincipal(c, c.principal,
                    IncrementSavings(c, IF c.od.enabled
                                        THEN c.od.startSavings ELSE 0)))

NoStepUp(c) == c.stepUp.mode = "none" \/ c.stepUp.value <= 0

NoPrepay(c) ==
    c.prepay.oneTimeAmount <= 0 /\ c.prepay.recurringAnnualAmount <= 0

NoOffset(c) == ~c.od.enabled

Plain(c) == NoStepUp(c) /\ NoPrepay(c) /\ NoOffset(c)

ZeroResult ==
    /\ result.totalInterest = 0
    /\ result.totalPaid = 0
    /\ result.months = 0

----------------------------------------------------------------------------
(* C1 *)

\* C1: for every configuration with principal <= 0 or tenureMonths <= 0
\* the simulation emits no record and its aggregates (totalInterest,
\* totalPaid, months) are 0; in particular for principal > 0 with
\* tenureMonths = 0.
C1_Original ==
    Degenerate(input) =>
        /\ ~HasRow
        /\ m = 0
        /\ totalInterest = 0
        /\ paid = 0
        /\ (pc = "done" => ZeroResult)

----------------------------------------------------------------------------
(* C2 *)

\* C2: the record sequence never has more than 1200 entries, every record
\* except the last has closingPrincipal > 0 (no record follows one whose
\* closingPrincipal is 0), and the simulation ends only with no record at
\* all (principal <= 0), at a record whose closingPrincipal is 0, or at
\* 1200 records.
C2_StopsAtPayoffOrCap ==
    /\ m <= MaxMonths
    /\ (HasRow => Last.monthIndex < MaxMonths)
    /\ (HasPrev => Prev.closingPrincipal > 0)
    /\ (pc = "done" /\ HasRow =>
            Last.closingPrincipal = 0 \/ m = MaxMonths)
    /\ (pc = "done" /\ ~HasRow => input.principal <= 0)

C2_Witness ==
    /\ pc = "done"
    /\ m = MaxMonths
    /\ HasPrev
    /\ Last.closingPrincipal = 0

----------------------------------------------------------------------------
(* C3 *)

----------------------------------------------------------------------------
(* C4 *)

\* every input of the configuration except monthlyIncrement is >= 0
NonNegativeInputs(c) ==
    /\ c.principal >= 0 /\ c.years >= 0 /\ c.monthsExtra >= 0
    /\ c.annualRate >= 0 /\ c.stepUp.value >= 0
    /\ c.prepay.oneTimeAmount >= 0 /\ c.prepay.oneTimeMonth >= 0
    /\ c.prepay.recurringAnnualAmount >= 0
    /\ c.od.startSavings >= 0 /\ c.od.partFromSavingsEveryYYears >= 0
    /\ c.od.partAmountEachTime >= 0

\* C4: with non-negative inputs every currency field of every emitted
\* record is >= 0, also with a negative monthlyIncrement and in months where
\* the periodic transfer fires.
C4_NonNegativeFields ==
    (NonNegativeInputs(input) /\ HasRow) =>
        /\ Last.openingPrincipal >= 0
        /\ Last.savingsBalance >= 0
        /\ Last.effectivePrincipal >= 0
        /\ Last.interest >= 0
        /\ Last.scheduledEmi >= 0
        /\ Last.principalPaid >= 0
        /\ Last.prepayment >= 0
        /\ Last.closingPrincipal >= 0
        /\ Last.closingSavings >= 0

C4_Witness ==
    /\ HasRow
    /\ NonNegativeInputs(input)
    /\ input.od.monthlyIncrement < 0
    /\ loc.transferable > 0
    /\ Last.closingSavings < loc.savingsIn
    /\ Last.closingPrincipal > 0

----------------------------------------------------------------------------
(* C5 *)

\* C5: the first record has monthIndex 0 and openingPrincipal equal to the
\* configured principal; each later record has monthIndex one more than its
\* predecessor and openingPrincipal equal to the predecessor's
\* closingPrincipal.
C5_Continuity ==
    /\ (HasRow => Last.monthIndex = m - 1)
    /\ (HasRow /\ ~HasPrev =>
            /\ Last.monthIndex = 0
            /\ Last.openingPrincipal = input.principal)
    /\ (HasPrev =>
            /\ Last.monthIndex = Prev.monthIndex + 1
            /\ Last.openingPrincipal = Prev.closingPrincipal)

C5_Witness ==
    /\ HasPrev
    /\ Prev.prepayment > 0
    /\ Prev.principalPaid > 0
    /\ Prev.closingPrincipal < Prev.openingPrincipal
    /\ Last.openingPrincipal = Prev.closingPrincipal

----------------------------------------------------------------------------
(* C6 *)

----------------------------------------------------------------------------
(* C7 *)

MonthlyAdd(c) == c.stepUp.mode = "monthly_add" /\ c.stepUp.value > 0

\* C7 as stated: under monthly_add with value v > 0 the persisted scheduled
\* payment stays the initial annuity payment, so the payment resolved for
\* every month (the value held after that month's resolution) is
\* initial payment + v.
C7_Original ==
    (MonthlyAdd(input) /\ HasRow) =>
        schedEmi = baseEmi(input) + input.stepUp.value

\* C7 amended: under monthly_add with value v > 0 the resolved payment is
\* stored back as the persisted scheduled payment, so v accumulates: after k
\* months the persisted payment is initial payment + k*v, and the payment
\* resolved for month index k is initial payment + (k+1)*v; the record's
\* scheduledEmi is that payment capped at openingPrincipal + interest.
C7_Amended ==
    MonthlyAdd(input) =>
        /\ schedEmi = baseEmi(input) + m * input.stepUp.value
        /\ (HasRow =>
               Last.scheduledEmi =
                   Min(baseEmi(input)
                          + (Last.monthIndex + 1) * input.stepUp.value,
                       Last.openingPrincipal + Last.interest))

C7_Witness ==
    /\ MonthlyAdd(input)
    /\ m = 3
    /\ baseEmi(input) > 0
    /\ schedEmi = baseEmi(input) + 3 * input.stepUp.value
    /\ Last.scheduledEmi = schedEmi

----------------------------------------------------------------------------
(* C8 *)

OneTime(c) == c.prepay.oneTimeAmount > 0

\* the recurring annual amount due in month index k
RecurringDue(c, k) ==
    IF c.prepay.recurringAnnualAmount > 0 /\ k > 0 /\ k % 12 = 0
    THEN c.prepay.recurringAnnualAmount ELSE 0

\* C8 as stated: with a one-time amount > 0 the schedule has a record whose
\* monthIndex is the configured month, and that record's prepayment includes
\* the full configured amount (plus the recurring amount in an annual
\* month); no other record carries it.
C8_Original ==
    (OneTime(input) /\ input.principal > 0) =>
        /\ (pc = "done" => m > input.prepay.oneTimeMonth)
        /\ (HasRow /\ Last.monthIndex = input.prepay.oneTimeMonth =>
                Last.prepayment >= input.prepay.oneTimeAmount
                                     + RecurringDue(input, Last.monthIndex))
        /\ (HasRow /\ Last.monthIndex # input.prepay.oneTimeMonth =>
                Last.prepayment <= RecurringDue(input, Last.monthIndex)
                                     + loc.transferable)

\* C8 amended: with a one-time amount > 0, the amount enters the prepayment
\* of at most one record, the one whose monthIndex is the configured month
\* (none when the schedule ends before that month); in that record
\* prepayment is the one-time amount plus the month's recurring and
\* transferred amounts, capped at openingPrincipal - principalPaid; in every
\* other record prepayment is the month's recurring and transferred amounts
\* under the same cap.
C8_Amended ==
    (OneTime(input) /\ HasRow) =>
        LET others == RecurringDue(input, Last.monthIndex) + loc.transferable
            room == Max(0, Last.openingPrincipal - Last.principalPaid)
        IN  IF Last.monthIndex = input.prepay.oneTimeMonth
            THEN Last.prepayment =
                     Min(input.prepay.oneTimeAmount + others, room)
            ELSE Last.prepayment = Min(others, room)

C8_Witness ==
    /\ OneTime(input)
    /\ HasPrev
    /\ input.prepay.oneTimeMonth = 12
    /\ Prev.monthIndex = 12
    /\ Prev.prepayment = input.prepay.oneTimeAmount
    /\ Last.prepayment = 0
    /\ Last.closingPrincipal > 0

----------------------------------------------------------------------------
(* C9 *)

\* C9: with the savings offset enabled (and a non-negative starting
\* balance), every record has effectivePrincipal <= openingPrincipal and
\* interest = effectivePrincipal * monthlyRate; when savings lower the
\* effective principal and the rate is positive, the interest is less than
\* the interest on openingPrincipal.
C9_OffsetBound ==
    (input.od.enabled /\ input.od.startSavings >= 0 /\ HasRow) =>
        /\ Last.effectivePrincipal <= Last.openingPrincipal
        /\ Last.effectivePrincipal = Max(0, Last.openingPrincipal - loc.savingsIn)
        /\ Last.interest = Last.effectivePrincipal * Last.rateMonthly
        /\ (loc.savingsIn > 0 /\ Last.rateMonthly > 0 =>
                Last.interest < Last.openingPrincipal * Last.rateMonthly)

C9_Witness ==
    /\ input.od.enabled
    /\ HasRow
    /\ Last.rateMonthly > 0
    /\ loc.savingsIn > 0
    /\ Last.effectivePrincipal > 0
    /\ Last.effectivePrincipal < Last.openingPrincipal
    /\ Last.interest = Last.effectivePrincipal

----------------------------------------------------------------------------
(* C10 *)

\* C10 as stated: in a month where the periodic transfer fires, savings drop
\* by min(partAmountEachTime, savings) and the amount removed from savings
\* is not larger than the prepayment recorded for that month.
C10_TransferReachesPrincipal ==
    (HasRow /\ TransferMonth(input, Last.monthIndex)) =>
        /\ loc.savingsIn - Last.closingSavings =
               Max(0, Min(input.od.partAmountEachTime, loc.savingsIn))
        /\ loc.savingsIn - Last.closingSavings <= Last.prepayment

----------------------------------------------------------------------------
(* C11 *)

\* C11 as stated: with the offset enabled, every record's effectivePrincipal
\* equals max(0, openingPrincipal - savingsBalance) of that same record,
\* also in months where the periodic transfer out of savings fires.
C11_EffectiveFromRecordedSavings ==
    (input.od.enabled /\ HasRow) =>
        Last.effectivePrincipal =
            Max(0, Last.openingPrincipal - Last.savingsBalance)

----------------------------------------------------------------------------
(* C12 *)

YearlyPercent(c) == c.stepUp.mode = "yearly_percent" /\ c.stepUp.value > 0

\* p multiplied k times by (1 + pct/100)
RECURSIVE Compound(_, _, _)
Compound(p, pct, k) ==
    IF k <= 0 THEN p ELSE (Compound(p, pct, k - 1) * (100 + pct)) \div 100

\* C12: under yearly_percent with pct > 0 the persisted scheduled payment is
\* the initial payment before month 0 and, once month index k has been
\* resolved, initial payment * (1 + pct/100)^floor(k/12): it is multiplied
\* exactly once on entering each month k > 0 with k mod 12 = 0 and is
\* unchanged in every other month; the record's scheduledEmi is that payment
\* capped at openingPrincipal + interest.
C12_YearlyCompounding ==
    YearlyPercent(input) =>
        /\ (m = 0 => schedEmi = baseEmi(input))
        /\ (HasRow =>
              /\ schedEmi = Compound(baseEmi(input), input.stepUp.value,
                                     Last.monthIndex \div 12)
              /\ Last.scheduledEmi =
                     Min(schedEmi, Last.openingPrincipal + Last.interest))

C12_Witness ==
    /\ YearlyPercent(input)
    /\ HasPrev
    /\ baseEmi(input) > 0
    /\ Last.monthIndex = 24
    /\ Prev.scheduledEmi = 2 * baseEmi(input)
    /\ Last.scheduledEmi = 4 * baseEmi(input)
    /\ schedEmi = 4 * baseEmi(input)

----------------------------------------------------------------------------
(* C13 *)

\* C13: in every record openingPrincipal - closingPrincipal =
\* principalPaid + prepayment; principalPaid is at most openingPrincipal and
\* the capped prepayment at most openingPrincipal - principalPaid, so the
\* final max(0, ...) discards nothing; and the balance never increases from
\* one month to the next, also when the scheduled payment is below the
\* month's interest.
C13_BalanceAccounting ==
    HasRow =>
        /\ Last.openingPrincipal - Last.closingPrincipal =
               Last.principalPaid + Last.prepayment
        /\ Last.principalPaid <= Last.openingPrincipal
        /\ Last.prepayment <= Last.openingPrincipal - Last.principalPaid
        /\ Last.prepayment <= loc.extraPrepay
        /\ Last.closingPrincipal <= Last.openingPrincipal
        /\ bal = Last.closingPrincipal
        /\ (HasPrev => Last.closingPrincipal <= Prev.closingPrincipal)

\* a month whose payment is below its interest, with a prepayment applied
C13_Witness ==
    /\ HasPrev
    /\ Last.scheduledEmi < Last.interest
    /\ Last.principalPaid = 0
    /\ Last.prepayment > 0
    /\ Last.closingPrincipal > 0
    /\ Last.closingPrincipal < Prev.closingPrincipal

----------------------------------------------------------------------------
(* C14 *)

\* C14: totalPaid equals totalInterest plus the principal retired
\* (configured principal - final closingPrincipal); a schedule that ends
\* paid off has totalPaid = principal + totalInterest.
C14_Original ==
    (pc = "done" /\ HasRow) =>
        result.totalPaid =
            result.totalInterest
              + (input.principal - Last.closingPrincipal)

====
